---- MODULE Spec2Model ----
(***************************************************************************)
(* Model of packages/examples/main/src/browser/main.ts: the bridge between *)
(* a Monaco editor buffer and the JSON language service.                   *)
(*                                                                         *)
(* JavaScript runs every callback to completion on one thread, so each     *)
(* action below is one task of the event loop: a content-changed event, a  *)
(* timer callback, the continuation of an awaited promise, or the          *)
(* synchronous part of a capability provider.                              *)
(***************************************************************************)
EXTENDS Integers, Sequences, FiniteSets, TLC

(***************************************************************************)
(* Bounds of the model.                                                    *)
(***************************************************************************)
\* the buffer is edited until its version reaches MaxVersion
MaxVersion == 3
\* capability requests waiting for the engine at the same time
MaxRequests == 1
\* the clock of the timed specification stops at MaxTime
MaxTime == 2

(***************************************************************************)
(* Program constants.                                                      *)
(***************************************************************************)
\* main.ts:22
MODEL_URI == "inmemory://model.json"
\* main.ts:23, monaco.Uri.parse(MODEL_URI): the parsed form of the same URI
MONACO_URI == [scheme |-> "inmemory", authority |-> "model.json"]
\* main.ts:21
LANGUAGE_ID == "json"
\* main.ts:36-39, the initial content of the model (whitespace abridged)
InitialValue == "{\"$schema\": \"http://json.schemastore.org/coffeelint\", \"line_endings\": \"unix\"}"
\* main.ts:119-122, window.setTimeout(handler) is called without a timeout
\* argument, which the HTML standard defines as a timeout of 0
TimeoutDelay == 0

\* what the buffer may contain
Texts == {"", "{}", "{ invalid }", "[ x, y"}
\* the edits of the timed specification, where only the times matter
TimedTexts == {"{}"}
\* the edits made while capability requests are served
AdapterTexts == {"", "{ invalid }"}
\* the edits made while capability requests are served next to the validator
FrameTexts == {"{ invalid }"}


(***************************************************************************)
(* The state.                                                              *)
(***************************************************************************)
VARIABLES
    version,                    \* vscodeDocument.version
    text,                       \* vscodeDocument.getText()
    pendingValidationRequests,  \* Map<string, number>: uri -> timer handle
    timers,                     \* the window's scheduled, not yet fired timers
    nextHandle,                 \* the handle the next setTimeout returns
    now,                        \* the clock, in units of 10 ms
    passes,                     \* every execution of doValidate, in order
    diagnosticCollection,       \* the diagnostic channel: uri -> diagnostics
    requests,                   \* the capability requests waiting for the engine
    delivered,                  \* the capability request that ended last
    burst,                      \* history: versions captured since the last firing
    events,                     \* history: version -> when validate() captured it, and what
    cancelled,                  \* history: handles passed to clearTimeout
    lastFulfilled,              \* history: the pass whose doValidation was fulfilled last
    overlapped,                 \* history: the furthest a pass had got when a later one started
    lastPublished               \* history: the pass that changed the channel last

vars == <<version, text, pendingValidationRequests, timers, nextHandle, now,
          passes, diagnosticCollection, requests, delivered, burst, events,
          cancelled, lastFulfilled, overlapped, lastPublished>>

validatorVars == <<pendingValidationRequests, timers, nextHandle, passes,
                   diagnosticCollection, burst, events, cancelled,
                   lastFulfilled, overlapped, lastPublished>>

(***************************************************************************)
(* createDocument: an immutable copy of the buffer's version and text.     *)
(***************************************************************************)
\* a snapshot builder that caches the first snapshot it built
createDocumentCached(v, t) ==
    [uri |-> MODEL_URI, languageId |-> LANGUAGE_ID, version |-> 1,
     text |-> InitialValue]

createDocument(v, t) ==
    [uri |-> MODEL_URI, languageId |-> LANGUAGE_ID, version |-> v, text |-> t]

getText(document) == document.text

(***************************************************************************)
(* The language service, an external collaborator.  Its answers are a      *)
(* function of the document it is handed; whether a call fails is the      *)
(* environment's choice.                                                   *)
(***************************************************************************)
\* a language-server diagnostic: severities are 1 (Error) .. 4 (Hint)
pDiagnostic(line, message, severity) ==
    [space |-> "protocol", line |-> line, message |-> message, severity |-> severity]

doValidation(document) ==
    CASE getText(document) = "{ invalid }" ->
            <<pDiagnostic(0, "Property keys must be doublequoted", 1)>>
      [] getText(document) = "[ x, y" ->
            <<pDiagnostic(0, "Value expected", 1),
              pDiagnostic(0, "Expected comma or closing bracket", 2)>>
      [] OTHER -> <<>>

\* protocolConverter.asDiagnostic: a vscode.Diagnostic, severities 0 .. 3
asDiagnostic(d) ==
    [space |-> "editor", line |-> d.line, message |-> d.message,
     severity |-> d.severity - 1]

asDiagnostics(pDiagnostics) ==
    [i \in 1..Len(pDiagnostics) |-> asDiagnostic(pDiagnostics[i])]

(***************************************************************************)
(* The diagnostic channel.                                                 *)
(***************************************************************************)
\* a set that adds the diagnostics to those the uri already has
diagnosticCollection_setMerging(collection, uri, diagnostics) ==
    [u \in DOMAIN collection \cup {uri} |->
        IF u = uri
        THEN (IF uri \in DOMAIN collection THEN collection[uri] ELSE <<>>)
                \o diagnostics
        ELSE collection[u]]

\* diagnosticCollection.set(uri, diagnostics): replaces the entry of uri
diagnosticCollection_set(collection, uri, diagnostics) ==
    [u \in DOMAIN collection \cup {uri} |->
        IF u = uri THEN diagnostics ELSE collection[u]]

\* a clear that leaves the entries where they are
diagnosticCollection_clearKeeping(collection) == collection

\* diagnosticCollection.clear(): removes every entry
diagnosticCollection_clear(collection) == <<>>

\* what the editor shows for a uri
Visible(uri) ==
    IF uri \in DOMAIN diagnosticCollection THEN diagnosticCollection[uri] ELSE <<>>

(***************************************************************************)
(* validate and cleanPendingValidation.                                    *)
(***************************************************************************)
\* a clearTimeout that leaves the timer scheduled
clearTimeoutKeeping(ts, handle) == ts

\* window.clearTimeout(handle)
clearTimeout(ts, handle) == {t \in ts : t.handle # handle}

\* a cleanPendingValidation that forgets the handle without cancelling it
cleanPendingValidation_timersForgetting(document) == timers

\* the timers and the map after cleanPendingValidation(document)
cleanPendingValidation_timers(document) ==
    IF document.uri \in DOMAIN pendingValidationRequests
    THEN clearTimeout(timers, pendingValidationRequests[document.uri])
    ELSE timers

cleanPendingValidation_map(document) ==
    [u \in DOMAIN pendingValidationRequests \ {document.uri} |->
        pendingValidationRequests[u]]

\* a validate() that passes a quiescence delay of 300 ms to setTimeout
validateDelayed(v, t) ==
    LET document == createDocument(v, t)
        kept     == cleanPendingValidation_timers(document)
        map      == cleanPendingValidation_map(document)
    IN  /\ timers' = kept \cup
            {[handle |-> nextHandle, document |-> document, due |-> now + 30]}
        /\ pendingValidationRequests' =
            [u \in DOMAIN map \cup {document.uri} |->
                IF u = document.uri THEN nextHandle ELSE map[u]]
        /\ nextHandle' = nextHandle + 1
        /\ cancelled' = cancelled \cup {t0.handle : t0 \in timers \ kept}
        /\ burst' = Append(burst, v)
        /\ events' = [w \in DOMAIN events \cup {v} |->
                        IF w = v THEN [time |-> now, text |-> t] ELSE events[w]]

\* a validate() that throttles: while a validation is pending, a new event
\* schedules nothing and the pending one keeps its older snapshot
validateThrottled(v, t) ==
    LET document == createDocument(v, t)
        pending  == document.uri \in DOMAIN pendingValidationRequests
    IN  /\ timers' = IF pending THEN timers ELSE timers \cup
            {[handle |-> nextHandle, document |-> document, due |-> now + TimeoutDelay]}
        /\ pendingValidationRequests' =
            IF pending THEN pendingValidationRequests
            ELSE [u \in {document.uri} |-> nextHandle]
        /\ nextHandle' = nextHandle + 1
        /\ UNCHANGED cancelled
        /\ burst' = Append(burst, v)
        /\ events' = [w \in DOMAIN events \cup {v} |->
                        IF w = v THEN [time |-> now, text |-> t] ELSE events[w]]

\* the whole of validate(), called with the buffer as it is after the edit
validate(v, t) ==
    LET document == createDocument(v, t)
        kept     == cleanPendingValidation_timers(document)
        map      == cleanPendingValidation_map(document)
    IN  /\ timers' = kept \cup
            {[handle |-> nextHandle, document |-> document, due |-> now + TimeoutDelay]}
        /\ pendingValidationRequests' =
            [u \in DOMAIN map \cup {document.uri} |->
                IF u = document.uri THEN nextHandle ELSE map[u]]
        /\ nextHandle' = nextHandle + 1
        /\ cancelled' = cancelled \cup {t0.handle : t0 \in timers \ kept}
        /\ burst' = Append(burst, v)
        /\ events' = [w \in DOMAIN events \cup {v} |->
                        IF w = v THEN [time |-> now, text |-> t] ELSE events[w]]

\* model.onDidChangeContent: the editor has replaced the content and raised
\* the version; the listener calls validate()
ContentChanged(t) ==
    /\ version < MaxVersion
    /\ version' = version + 1
    /\ text' = t
    /\ validate(version + 1, t)
    /\ UNCHANGED <<now, passes, diagnosticCollection, requests, delivered,
                   lastFulfilled, overlapped, lastPublished>>

(***************************************************************************)
(* doValidate.                                                             *)
(***************************************************************************)
\* the record of one execution of doValidate(document): the stage it has
\* reached, the calls it has made and the diagnostics the engine answered
\* (history: whether its parse returned, the burst it closes, and when it ran)
Pass(document, stage, calls, parse) ==
    [document |-> document, stage |-> stage, calls |-> calls,
     pDiagnostics |-> <<>>, parse |-> parse, burst |-> burst,
     firedAt |-> now]

\* a doValidate without the empty-document check
doValidateAlways(document, parse) ==
    /\ UNCHANGED <<diagnosticCollection, lastPublished>>
    /\ passes' = Append(passes,
            IF parse = "ok"
            THEN Pass(document, "doValidation",
                      <<"parseJSONDocument", "doValidation">>, parse)
            ELSE Pass(document, "failed", <<"parseJSONDocument">>, parse))

\* the synchronous part of doValidate; parse says whether parseJSONDocument
\* returns ("ok") or throws ("throws").  main.ts:134-145
doValidate(document, parse) ==
    IF Len(getText(document)) = 0
    THEN /\ diagnosticCollection' = diagnosticCollection_clear(diagnosticCollection)
         /\ passes' = Append(passes, Pass(document, "done", <<"clear">>, "none"))
         /\ lastPublished' = Len(passes) + 1
    ELSE /\ UNCHANGED <<diagnosticCollection, lastPublished>>
         /\ passes' = Append(passes,
                IF parse = "ok"
                THEN Pass(document, "doValidation",
                          <<"parseJSONDocument", "doValidation">>, parse)
                ELSE Pass(document, "failed", <<"parseJSONDocument">>, parse))

\* what a timer that fires now finds of the passes before it: one still
\* waits for the engine ("doValidation"), one has its answer and waits for
\* the conversion ("asDiagnostics"), or, so far, all had ended ("none")
Overlap ==
    IF overlapped = "doValidation"
          \/ \E i \in DOMAIN passes : passes[i].stage = "doValidation"
    THEN "doValidation"
    ELSE IF overlapped = "asDiagnostics"
               \/ \E i \in DOMAIN passes : passes[i].stage = "asDiagnostics"
         THEN "asDiagnostics"
         ELSE "none"

\* a timer callback that leaves its handle in the map
TimerFiresKeepingEntry(t, parse) ==
    /\ t \in timers
    /\ now >= t.due
    /\ timers' = timers \ {t}
    /\ UNCHANGED pendingValidationRequests
    /\ doValidate(t.document, parse)
    /\ burst' = <<>>
    /\ UNCHANGED <<version, text, nextHandle, now, requests, delivered, events,
                   cancelled, lastFulfilled>>
    /\ overlapped' = Overlap

\* the timer callback of validate(): main.ts:119-122
TimerFires(t, parse) ==
    /\ t \in timers
    /\ now >= t.due
    /\ timers' = timers \ {t}
    /\ pendingValidationRequests' =
            [u \in DOMAIN pendingValidationRequests \ {t.document.uri} |->
                pendingValidationRequests[u]]
    /\ doValidate(t.document, parse)
    /\ burst' = <<>>
    /\ UNCHANGED <<version, text, nextHandle, now, requests, delivered, events,
                   cancelled, lastFulfilled>>
    /\ overlapped' = Overlap

\* a doValidation whose rejection is caught by clearing the diagnostics
DoValidationSettlesClearing(p, ok) ==
    /\ p \in DOMAIN passes
    /\ passes[p].stage = "doValidation"
    /\ passes' = [passes EXCEPT
            ![p].stage = IF ok THEN "asDiagnostics" ELSE "failed",
            ![p].calls = IF ok THEN Append(@, "asDiagnostics") ELSE @,
            ![p].pDiagnostics = IF ok THEN doValidation(passes[p].document) ELSE @]
    /\ lastFulfilled' = IF ok THEN p ELSE lastFulfilled
    /\ UNCHANGED overlapped
    /\ diagnosticCollection' =
            IF ok THEN diagnosticCollection
            ELSE diagnosticCollection_clear(diagnosticCollection)
    /\ UNCHANGED <<version, text, pendingValidationRequests, timers, nextHandle,
                   now, requests, delivered, burst, events, cancelled,
                   lastPublished>>

\* the promise of jsonService.doValidation settles: fulfilled, the then
\* callback starts and awaits asDiagnostics; rejected, nothing handles it.
\* main.ts:141-142
DoValidationSettles(p, ok) ==
    /\ p \in DOMAIN passes
    /\ passes[p].stage = "doValidation"
    /\ passes' = [passes EXCEPT
            ![p].stage = IF ok THEN "asDiagnostics" ELSE "failed",
            ![p].calls = IF ok THEN Append(@, "asDiagnostics") ELSE @,
            ![p].pDiagnostics = IF ok THEN doValidation(passes[p].document) ELSE @]
    /\ lastFulfilled' = IF ok THEN p ELSE lastFulfilled
    /\ UNCHANGED overlapped
    /\ UNCHANGED <<version, text, pendingValidationRequests, timers, nextHandle,
                   now, diagnosticCollection, requests, delivered, burst, events,
                   cancelled, lastPublished>>

\* a continuation with a version guard: the result of a pass is dropped when
\* a pass on a newer snapshot has already changed the channel
AsDiagnosticsSettlesGuarded(p, ok) ==
    /\ p \in DOMAIN passes
    /\ passes[p].stage = "asDiagnostics"
    /\ IF ok
       THEN /\ diagnosticCollection' =
                    IF /\ lastPublished # 0
                       /\ passes[lastPublished].document.version >
                            passes[p].document.version
                    THEN diagnosticCollection
                    ELSE diagnosticCollection_set(
                            diagnosticCollection, MONACO_URI,
                            asDiagnostics(passes[p].pDiagnostics))
            /\ passes' = [passes EXCEPT ![p].stage = "done",
                                        ![p].calls = Append(@, "set")]
            /\ lastPublished' = p
       ELSE /\ UNCHANGED <<diagnosticCollection, lastPublished>>
            /\ passes' = [passes EXCEPT ![p].stage = "failed"]
    /\ UNCHANGED <<version, text, pendingValidationRequests, timers, nextHandle,
                   now, requests, delivered, burst, events, cancelled,
                   lastFulfilled, overlapped>>

\* the awaited asDiagnostics settles: fulfilled, the result is published;
\* rejected, nothing handles it.  main.ts:142-143
AsDiagnosticsSettles(p, ok) ==
    /\ p \in DOMAIN passes
    /\ passes[p].stage = "asDiagnostics"
    /\ IF ok
       THEN /\ diagnosticCollection' = diagnosticCollection_set(
                    diagnosticCollection, MONACO_URI,
                    asDiagnostics(passes[p].pDiagnostics))
            /\ passes' = [passes EXCEPT ![p].stage = "done",
                                        ![p].calls = Append(@, "set")]
            /\ lastPublished' = p
       ELSE /\ UNCHANGED <<diagnosticCollection, lastPublished>>
            /\ passes' = [passes EXCEPT ![p].stage = "failed"]
    /\ UNCHANGED <<version, text, pendingValidationRequests, timers, nextHandle,
                   now, requests, delivered, burst, events, cancelled,
                   lastFulfilled, overlapped>>

(***************************************************************************)
(* The capability providers.  The language service answers a request from  *)
(* the document it is handed; which answer it gives for the requested      *)
(* position (a result or none) and whether the call fails (by throwing, or *)
(* by rejecting the promise it returned) is the environment's choice.      *)
(***************************************************************************)
\* an answer of the language service, in its own (protocol) representation
Answer(kind, document) ==
    [space |-> "protocol", kind |-> kind,
     version |-> document.version, text |-> getText(document)]

\* the service reports no result (null)
Null == [space |-> "protocol", kind |-> "null", version |-> 0, text |-> ""]
\* the absent value (undefined) the protocol converter returns for null
Undefined == [space |-> "editor", kind |-> "undefined", version |-> 0, text |-> ""]
\* resolveCompletionItem is handed an item, not a document
NoDocument == [uri |-> "", languageId |-> "", version |-> 0, text |-> ""]
\* the completion item the editor asks to resolve
Item == [space |-> "editor", kind |-> "item", version |-> 1, text |-> InitialValue]

\* protocolConverter.asCompletionResult / asCompletionItem / asTextEdits /
\* asSymbolInformations / asHover: null and undefined become undefined
asEditor(answer) ==
    IF answer = Null THEN Undefined ELSE [answer EXCEPT !.space = "editor"]

protocolConverter_asHover(hover) == asEditor(hover)

\* codeConverter.asCompletionItem
codeConverter_asCompletionItem(item) == [item EXCEPT !.space = "protocol"]

\* jsonService.doResolve(item): the item, resolved
doResolve(item) == [item EXCEPT !.kind = "resolved"]

\* one invocation of a provider, as the editor framework sees it: stage is
\* the engine call it is waiting for, or how it ended ("fulfilled",
\* "rejected": the returned promise failed, "thrown": the provider threw)
\* (history: the buffer it read when it was issued, the engine calls it made,
\* the call that failed and how, what the awaited engine call answered, and
\* whether the buffer had changed when that call settled)
Request(kind, document, stage, value, calls, failure, how) ==
    [kind |-> kind, document |-> document,
     issued |-> IF document = NoDocument THEN [version |-> 0, text |-> ""]
                ELSE [version |-> version, text |-> text],
     stage |-> stage, value |-> value, calls |-> calls,
     failure |-> failure, how |-> how, answer |-> "none", changed |-> FALSE]

\* no provider has ended yet
NoRequest ==
    [kind |-> "none", document |-> NoDocument,
     issued |-> [version |-> 0, text |-> ""],
     stage |-> "none", value |-> Undefined, calls |-> <<>>,
     failure |-> "none", how |-> "none", answer |-> "none", changed |-> FALSE]

Outstanding(request) == request.stage \in {"doComplete", "doResolve", "doHover"}

\* a provider that also clears the diagnostics
IssueClearing(request) ==
    /\ IF Outstanding(request)
       THEN /\ Cardinality(requests) < MaxRequests
            /\ request \notin requests
            /\ requests' = requests \cup {request}
            /\ UNCHANGED delivered
       ELSE /\ delivered' = request
            /\ UNCHANGED requests
    /\ diagnosticCollection' = diagnosticCollection_clear(diagnosticCollection)
    /\ UNCHANGED <<version, text, now, pendingValidationRequests, timers,
                   nextHandle, passes, burst, events, cancelled, lastFulfilled, overlapped,
                   lastPublished>>

\* the provider has run its synchronous part: it has ended, or it waits
\* for the engine
Issue(request) ==
    /\ IF Outstanding(request)
       THEN /\ Cardinality(requests) < MaxRequests
            /\ request \notin requests
            /\ requests' = requests \cup {request}
            /\ UNCHANGED delivered
       ELSE /\ delivered' = request
            /\ UNCHANGED requests
    /\ UNCHANGED <<version, text, now>>
    /\ UNCHANGED validatorVars

\* an engine call that reads the buffer when it completes
engineDocumentLive(r) == createDocument(version, text)

\* the document the outstanding engine call of request r works on
engineDocument(r) == r.document

\* a continuation that catches the rejection and returns no result
SettleSwallowing(r, rejected, answer, value) ==
    /\ requests' = requests \ {r}
    /\ delivered' = [r EXCEPT
            !.stage = "fulfilled",
            !.value = IF rejected THEN Undefined ELSE value,
            !.failure = IF rejected THEN r.stage ELSE "none",
            !.how = IF rejected THEN "rejected" ELSE "none",
            !.answer = IF rejected THEN "none" ELSE answer.kind,
            !.changed = r.document # NoDocument /\ version # r.issued.version]
    /\ UNCHANGED <<version, text, now>>
    /\ UNCHANGED validatorVars

\* the continuation of request r: the promise of the engine call has settled
\* as a rejection, or with the given answer, which is returned converted
Settle(r, rejected, answer, value) ==
    /\ requests' = requests \ {r}
    /\ delivered' = [r EXCEPT
            !.stage = IF rejected THEN "rejected" ELSE "fulfilled",
            !.value = IF rejected THEN Undefined ELSE value,
            !.failure = IF rejected THEN r.stage ELSE "none",
            !.how = IF rejected THEN "rejected" ELSE "none",
            !.answer = IF rejected THEN "none" ELSE answer.kind,
            !.changed = r.document # NoDocument /\ version # r.issued.version]
    /\ UNCHANGED <<version, text, now>>
    /\ UNCHANGED validatorVars

\* provideCompletionItems, an async function: whatever its body throws
\* rejects the promise it returns.  main.ts:73-78
provideCompletionItems(outcome) ==
    LET document == createDocument(version, text) IN
    CASE outcome = "parseJSONDocument" ->
            Issue(Request("completion", document, "rejected", Undefined,
                          <<"parseJSONDocument">>, "parseJSONDocument", "threw"))
      [] outcome = "doComplete" ->
            Issue(Request("completion", document, "rejected", Undefined,
                          <<"parseJSONDocument", "doComplete">>, "doComplete", "threw"))
      [] OTHER ->
            Issue(Request("completion", document, "doComplete", Undefined,
                          <<"parseJSONDocument", "doComplete">>, "none", "none"))

\* the awaited doComplete settles.  main.ts:76-77
DoCompleteSettles(r, rejected, found) ==
    /\ r \in requests
    /\ r.stage = "doComplete"
    /\ LET completionList == IF found THEN Answer("completion", engineDocument(r))
                              ELSE Null
       IN  Settle(r, rejected, completionList, asEditor(completionList))

\* resolveCompletionItem.  main.ts:80-82
resolveCompletionItem(outcome) ==
    CASE outcome = "doResolve" ->
            Issue(Request("resolve", NoDocument, "thrown", Undefined,
                          <<"doResolve">>, "doResolve", "threw"))
      [] OTHER ->
            Issue(Request("resolve", NoDocument, "doResolve", Undefined,
                          <<"doResolve">>, "none", "none"))

\* the promise of doResolve settles.  main.ts:81
DoResolveSettles(r, rejected) ==
    /\ r \in requests
    /\ r.stage = "doResolve"
    /\ LET result == doResolve(codeConverter_asCompletionItem(Item))
       IN  Settle(r, rejected, result, asEditor(result))

\* provideDocumentRangeFormattingEdits.  main.ts:86-90
provideDocumentRangeFormattingEdits(outcome) ==
    LET document == createDocument(version, text) IN
    CASE outcome = "format" ->
            Issue(Request("formatting", document, "thrown", Undefined,
                          <<"format">>, "format", "threw"))
      [] OTHER ->
            Issue(Request("formatting", document, "fulfilled",
                          asEditor(Answer("formatting", document)),
                          <<"format">>, "none", "none"))

\* provideDocumentSymbols.  main.ts:94-98
provideDocumentSymbols(outcome) ==
    LET document == createDocument(version, text) IN
    CASE outcome = "parseJSONDocument" ->
            Issue(Request("symbols", document, "thrown", Undefined,
                          <<"parseJSONDocument">>, "parseJSONDocument", "threw"))
      [] outcome = "findDocumentSymbols" ->
            Issue(Request("symbols", document, "thrown", Undefined,
                          <<"parseJSONDocument", "findDocumentSymbols">>,
                          "findDocumentSymbols", "threw"))
      [] OTHER ->
            Issue(Request("symbols", document, "fulfilled",
                          asEditor(Answer("symbols", document)),
                          <<"parseJSONDocument", "findDocumentSymbols">>,
                          "none", "none"))

\* provideHover.  main.ts:102-108
provideHover(outcome) ==
    LET document == createDocument(version, text) IN
    CASE outcome = "parseJSONDocument" ->
            Issue(Request("hover", document, "thrown", Undefined,
                          <<"parseJSONDocument">>, "parseJSONDocument", "threw"))
      [] outcome = "doHover" ->
            Issue(Request("hover", document, "thrown", Undefined,
                          <<"parseJSONDocument", "doHover">>, "doHover", "threw"))
      [] OTHER ->
            Issue(Request("hover", document, "doHover", Undefined,
                          <<"parseJSONDocument", "doHover">>, "none", "none"))

\* a then callback that treats a missing hover as a failure
DoHoverSettlesStrict(r, rejected, found) ==
    /\ r \in requests
    /\ r.stage = "doHover"
    /\ LET hover == IF found THEN Answer("hover", engineDocument(r)) ELSE Null
       IN  /\ requests' = requests \ {r}
           /\ delivered' = [r EXCEPT
                    !.stage = IF rejected \/ hover = Null THEN "rejected"
                              ELSE "fulfilled",
                    !.value = IF rejected THEN Undefined
                              ELSE protocolConverter_asHover(hover),
                    !.failure = IF rejected THEN r.stage ELSE "none",
                    !.how = IF rejected THEN "rejected" ELSE "none",
                    !.answer = IF rejected THEN "none" ELSE hover.kind,
                    !.changed = r.document # NoDocument /\ version # r.issued.version]
           /\ UNCHANGED <<version, text, now>>
           /\ UNCHANGED validatorVars

\* the promise of doHover settles and the then callback converts the hover.
\* main.ts:105-107
DoHoverSettles(r, rejected, found) ==
    /\ r \in requests
    /\ r.stage = "doHover"
    /\ LET hover == IF found THEN Answer("hover", engineDocument(r)) ELSE Null
       IN  Settle(r, rejected, hover, protocolConverter_asHover(hover))

(***************************************************************************)
(* Time passes.                                                            *)
(***************************************************************************)
Tick ==
    /\ now < MaxTime
    /\ now' = now + 1
    /\ UNCHANGED <<version, text, pendingValidationRequests, timers, nextHandle,
                   passes, diagnosticCollection, requests, delivered, burst,
                   events, cancelled, lastFulfilled, overlapped, lastPublished>>

(***************************************************************************)
(* The state after createEditor(): the model holds the initial value at    *)
(* version 1 and the call of validate() at main.ts:114 has scheduled the   *)
(* first validation.                                                       *)
(***************************************************************************)
\* a createEditor() without the call of validate() at its end
InitUnvalidated ==
    /\ version = 1
    /\ text = InitialValue
    /\ pendingValidationRequests = <<>>
    /\ timers = {}
    /\ nextHandle = 1
    /\ now = 0
    /\ passes = <<>>
    /\ diagnosticCollection = <<>>
    /\ requests = {}
    /\ delivered = NoRequest
    /\ burst = <<>>
    /\ events = [v \in {1} |-> [time |-> 0, text |-> InitialValue]]
    /\ cancelled = {}
    /\ lastFulfilled = 0
    /\ overlapped = "none"
    /\ lastPublished = 0

Init ==
    /\ version = 1
    /\ text = InitialValue
    /\ pendingValidationRequests = [u \in {MODEL_URI} |-> 1]
    /\ timers = {[handle |-> 1, document |-> createDocument(1, InitialValue),
                  due |-> TimeoutDelay]}
    /\ nextHandle = 2
    /\ now = 0
    /\ passes = <<>>
    /\ diagnosticCollection = <<>>
    /\ requests = {}
    /\ delivered = NoRequest
    /\ burst = <<1>>
    /\ events = [v \in {1} |-> [time |-> 0, text |-> InitialValue]]
    /\ cancelled = {}
    /\ lastFulfilled = 0
    /\ overlapped = "none"
    /\ lastPublished = 0

Next ==
    \/ \E t \in Texts : ContentChanged(t)
    \/ \E t \in timers, parse \in {"ok", "throws"} : TimerFires(t, parse)
    \/ \E p \in DOMAIN passes, ok \in BOOLEAN : DoValidationSettles(p, ok)
    \/ \E p \in DOMAIN passes, ok \in BOOLEAN : AsDiagnosticsSettles(p, ok)

Spec == Init /\ [][Next]_vars

\* the event loop runs the callback of every timer that stays scheduled:
\* a timer that is due and is not cancelled eventually fires
TimerFairness ==
    \A h \in 1..MaxVersion :
        WF_vars(\E t \in timers, parse \in {"ok", "throws"} :
                    t.handle = h /\ TimerFires(t, parse))

SpecLive == Spec /\ TimerFairness

\* the timed specification: the same program, with the clock running
NextTimed ==
    \/ \E t \in TimedTexts : ContentChanged(t)
    \/ \E t \in timers : TimerFires(t, "ok")
    \/ \E p \in DOMAIN passes : DoValidationSettles(p, TRUE)
    \/ \E p \in DOMAIN passes : AsDiagnosticsSettles(p, TRUE)
    \/ Tick

SpecTimed == Init /\ [][NextTimed]_vars

\* the capability requests the editor framework issues, and their
\* continuations
Capability ==
    \/ \E o \in {"parseJSONDocument", "doComplete", "pending"} :
            provideCompletionItems(o)
    \/ \E r \in requests, rejected, found \in BOOLEAN :
            DoCompleteSettles(r, rejected, found)
    \/ \E o \in {"doResolve", "pending"} : resolveCompletionItem(o)
    \/ \E r \in requests, rejected \in BOOLEAN : DoResolveSettles(r, rejected)
    \/ \E o \in {"format", "ok"} : provideDocumentRangeFormattingEdits(o)
    \/ \E o \in {"parseJSONDocument", "findDocumentSymbols", "ok"} :
            provideDocumentSymbols(o)
    \/ \E o \in {"parseJSONDocument", "doHover", "pending"} : provideHover(o)
    \/ \E r \in requests, rejected, found \in BOOLEAN :
            DoHoverSettles(r, rejected, found)

\* the capability providers on their own, with every outcome of their
\* engine calls: the buffer is edited while requests are served.  The timer
\* callback and the continuations of the validator, which neither read nor
\* write the requests, are left to the other specifications
NextAdapters ==
    \/ \E t \in AdapterTexts : ContentChanged(t)
    \/ Capability

SpecAdapters == Init /\ [][NextAdapters]_vars

\* the capability providers next to the running validator, every engine
\* call succeeding
CapabilitySucceeding ==
    \/ provideCompletionItems("pending")
    \/ \E r \in requests : DoCompleteSettles(r, FALSE, TRUE)
    \/ resolveCompletionItem("pending")
    \/ \E r \in requests : DoResolveSettles(r, FALSE)
    \/ provideDocumentRangeFormattingEdits("ok")
    \/ provideDocumentSymbols("ok")
    \/ provideHover("pending")
    \/ \E r \in requests : DoHoverSettles(r, FALSE, TRUE)

NextFrame ==
    \/ \E t \in FrameTexts : ContentChanged(t)
    \/ \E t \in timers : TimerFires(t, "ok")
    \/ \E p \in DOMAIN passes : DoValidationSettles(p, TRUE)
    \/ \E p \in DOMAIN passes : AsDiagnosticsSettles(p, TRUE)
    \/ CapabilitySucceeding

SpecFrame == Init /\ [][NextFrame]_vars

(***************************************************************************)
(* Properties of the debounced validator.                                  *)
(***************************************************************************)
Range(s) == {s[i] : i \in DOMAIN s}

Count(s, x) == Cardinality({i \in DOMAIN s : s[i] = x})

Last(s) == s[Len(s)]

\* the converted diagnostics of a validation of the given document
Result(document) == asDiagnostics(doValidation(document))

Published(i) == passes[i].stage = "done" /\ "set" \in Range(passes[i].calls)

\* C1: the content-changed events that occur before the pending timer fires
\* form a burst; every validation pass closes a non-empty burst and validates
\* the buffer as it was at the last event of that burst, no other pass
\* validates a snapshot of that burst, and while a burst is open exactly one
\* timer is scheduled and it holds the snapshot of the burst's last event
C1_DebounceCoalescing ==
    /\ \A i \in DOMAIN passes :
        LET p == passes[i] IN
        /\ p.burst # <<>>
        /\ p.document.version = Last(p.burst)
        /\ getText(p.document) = events[Last(p.burst)].text
        /\ \A j \in DOMAIN passes \ {i} :
                passes[j].document.version \notin Range(p.burst)
    /\ burst # <<>> =>
        \E t \in timers : /\ timers = {t}
                          /\ t.document.version = Last(burst)
                          /\ getText(t.document) = events[Last(burst)].text

\* a pass has validated a burst of two or more events
C1_Witness ==
    \E i \in DOMAIN passes : Len(passes[i].burst) >= 2

\* C2: at most one scheduled, not yet fired and not cancelled validation
\* timer exists for a document URI
C2_AtMostOnePendingTimer ==
    \A t1, t2 \in timers : t1.document.uri = t2.document.uri => t1 = t2

\* validate() has cancelled a timer and scheduled its successor
C2_Witness ==
    cancelled # {} /\ Cardinality(timers) = 1

\* C3 as stated: a pass runs only after a non-zero delay has elapsed since
\* the event that scheduled it, and of two events 10 ms apart the first is
\* never validated
C3_QuiescenceDelay ==
    \A i \in DOMAIN passes :
        LET v == passes[i].document.version IN
        /\ passes[i].firedAt > events[v].time
        /\ ~ (v + 1 \in DOMAIN events /\ events[v + 1].time - events[v].time = 1)

\* C3 as amended: the callback is scheduled with a delay of zero, so a timer
\* is due at the moment of the event that scheduled it; a pass never runs
\* before that event, and events are coalesced only while the timer has not
\* fired
C3_ZeroDelay ==
    /\ \A t \in timers : t.due = events[t.document.version].time
    /\ \A i \in DOMAIN passes :
        passes[i].firedAt >= events[passes[i].document.version].time

\* two events 10 ms apart have caused two validation passes
C3_Witness ==
    \E i, j \in DOMAIN passes :
        LET v == passes[i].document.version IN
        /\ passes[j].document.version = v + 1
        /\ events[v + 1].time - events[v].time = 1
        /\ passes[j].firedAt = events[v + 1].time

\* C4 as stated: a pass on an empty snapshot calls clear() and nothing else;
\* a pass on a non-empty snapshot calls doValidation exactly once and never
\* clear()
C4_DoValidationExactlyOnce ==
    \A i \in DOMAIN passes :
        LET p == passes[i] IN
        IF Len(getText(p.document)) = 0
        THEN p.calls = <<"clear">>
        ELSE /\ "clear" \notin Range(p.calls)
             /\ Count(p.calls, "doValidation") = 1

\* C4 as amended: a pass on an empty snapshot calls clear() and nothing else;
\* a pass on a non-empty snapshot never calls clear(), calls
\* parseJSONDocument once and, unless that call throws, doValidation exactly
\* once
C4_EmptyDocumentSuppression ==
    \A i \in DOMAIN passes :
        LET p == passes[i] IN
        IF Len(getText(p.document)) = 0
        THEN p.calls = <<"clear">>
        ELSE /\ "clear" \notin Range(p.calls)
             /\ p.calls[1] = "parseJSONDocument"
             /\ Count(p.calls, "parseJSONDocument") = 1
             /\ Count(p.calls, "doValidation") = IF p.parse = "ok" THEN 1 ELSE 0

\* a pass on an empty snapshot and a completed pass on a non-empty one
C4_Witness ==
    \E i, j \in DOMAIN passes :
        /\ Len(getText(passes[i].document)) = 0
        /\ Len(getText(passes[j].document)) > 0
        /\ Published(j)

\* C5: once the pass for an empty buffer has run, and as long as the buffer
\* stays empty, no diagnostics are visible for the document
C5_EmptyNeverInvalid ==
    (/\ Len(text) = 0
     /\ \E i \in DOMAIN passes : passes[i].document.version = version)
    => Visible(MONACO_URI) = <<>>

\* C6 as stated: when every pass has completed, the visible diagnostics are
\* the result of the pass whose engine call was fulfilled last
C6_LastFulfilledWins ==
    (/\ lastFulfilled # 0
     /\ lastPublished # 0
     /\ Published(lastPublished)
     /\ \A i \in DOMAIN passes : passes[i].stage = "done")
    => Visible(MONACO_URI) = Result(passes[lastFulfilled].document)

\* C6 as amended: the visible diagnostics are the result of the pass that
\* published last, whichever pass was scheduled first: no guard discards the
\* result of a pass on an older snapshot
C6_LastPublishedWins ==
    lastPublished # 0 =>
        Visible(MONACO_URI) =
            IF Published(lastPublished)
            THEN Result(passes[lastPublished].document)
            ELSE <<>>

\* two passes overlapped, the pass scheduled first completed last and its
\* result, not that of the newer snapshot, is visible
C6_Witness ==
    \E i, j \in DOMAIN passes :
        /\ i < j
        /\ Published(i) /\ Published(j)
        /\ lastFulfilled = i
        /\ lastPublished = i
        /\ Result(passes[i].document) # Result(passes[j].document)
        /\ Visible(MONACO_URI) = Result(passes[i].document)

\* pass p publishes in this step: its awaited conversion is fulfilled and
\* its continuation calls set()
Publishes(p) ==
    /\ p \in DOMAIN passes
    /\ passes[p].stage = "asDiagnostics"
    /\ passes'[p].stage = "done"

\* C11: when a pass on a non-empty snapshot completes with the converted
\* result D, the channel holds exactly D for the document URI right after
\* that step, and nothing else, whatever it held before; publishing D once
\* more leaves the channel as it is
C11_ReplaceNotMerge ==
    [][\A p \in DOMAIN passes : Publishes(p) =>
        LET D == Result(passes[p].document) IN
        /\ Len(getText(passes[p].document)) > 0
        /\ diagnosticCollection' = [u \in {MONACO_URI} |-> D]
        /\ diagnosticCollection_set(diagnosticCollection', MONACO_URI, D)
                = diagnosticCollection']_vars

\* a pass has published an empty result after an earlier pass had published
\* two diagnostics, and none is visible
C11_Witness ==
    \E i, j \in DOMAIN passes :
        /\ i # j
        /\ Published(i) /\ Published(j)
        /\ lastPublished = j
        /\ Len(Result(passes[i].document)) = 2
        /\ Result(passes[j].document) = <<>>
        /\ Visible(MONACO_URI) = <<>>

Idle == DOMAIN pendingValidationRequests = {}

\* a validation pass has run on the snapshot taken at the event that gave
\* the buffer version v
Validated(v) ==
    /\ v \in DOMAIN events
    /\ \E i \in DOMAIN passes :
            passes[i].document = createDocument(v, events[v].text)

\* C12: with every scheduled timer eventually firing unless it is cancelled,
\* once the buffer has reached the version of its last content-changed event
\* a validation pass eventually runs on the snapshot taken at that event and
\* the pending-validation map becomes empty; an empty map gets an entry only
\* by a content-changed event
C12_EventualValidation ==
    /\ \A v \in 1..MaxVersion :
            (version = v) ~> (version # v \/ (Validated(v) /\ Idle))
    /\ [][Idle /\ ~ Idle' => version' = version + 1]_vars

\* after a burst of two content-changed events the pass on the last snapshot
\* has run and the validator is idle
C12_Witness ==
    /\ version > 1
    /\ Idle
    /\ Validated(version)
    /\ \E i \in DOMAIN passes :
            passes[i].document.version = version /\ Len(passes[i].burst) >= 2

InFlight(i) == passes[i].stage \in {"doValidation", "asDiagnostics"}

\* C13: the pending-validation map has an entry for the document URI exactly
\* when a scheduled, not fired and not cancelled timer exists for it, and the
\* entry is that timer's handle; the step in which a timer fires leaves the
\* map without an entry, and an entry that exists next to a pass that has
\* run belongs to a timer scheduled by a newer content-changed event
C13_MapMatchesTimers ==
    /\ [](/\ DOMAIN pendingValidationRequests =
                {t.document.uri : t \in timers}
           /\ \A t \in timers :
                /\ pendingValidationRequests[t.document.uri] = t.handle
                /\ t.handle \notin cancelled
                /\ \A i \in DOMAIN passes :
                        t.document.version > passes[i].document.version)
    /\ [][Len(passes') > Len(passes) => ~ Idle /\ Idle']_vars

\* the engine call of a pass is in flight and the map holds the handle of
\* the timer that the next content-changed event has scheduled
C13_Witness ==
    \E i \in DOMAIN passes, t \in timers :
        /\ InFlight(i)
        /\ passes[i].document.version + 1 = t.document.version
        /\ pendingValidationRequests[MODEL_URI] = t.handle

\* C14: the snapshot a validation timer holds, captured when the
\* content-changed event was handled, has the version and the text of the
\* buffer as long as the timer is scheduled, and the pass that starts when
\* the timer fires validates the version and the text the buffer has at
\* that moment, as a validator that builds the snapshot on firing would
C14_SnapshotAtFiring ==
    /\ [](\A t \in timers :
            /\ t.document.version = version
            /\ getText(t.document) = text)
    /\ [][Len(passes') > Len(passes) =>
            LET document == passes'[Len(passes')].document IN
            /\ document.uri = MODEL_URI
            /\ document.languageId = LANGUAGE_ID
            /\ document.version = version
            /\ getText(document) = text]_vars

\* a timer scheduled by a content-changed event has fired and its pass has
\* validated the buffer as it is
C14_Witness ==
    /\ version > 1
    /\ passes # <<>>
    /\ Last(passes).document.version = version
    /\ getText(Last(passes).document) = text
    /\ text # InitialValue

\* the engine call or the conversion of pass p fails in this step
Fails(p) == InFlight(p) /\ passes'[p].stage = "failed"

\* C15: the step in which the doValidation call or the conversion of a pass
\* fails changes neither the diagnostic channel nor the pending-validation
\* map nor the timers and starts no pass; a failed pass has called neither
\* set() nor clear() and no other pass validates its snapshot; a timer is
\* scheduled only by a content-changed event
C15_FailureLeavesState ==
    /\ [](\A i \in DOMAIN passes : passes[i].stage = "failed" =>
            /\ "set" \notin Range(passes[i].calls)
            /\ "clear" \notin Range(passes[i].calls)
            /\ \A j \in DOMAIN passes \ {i} :
                    passes[j].document.version # passes[i].document.version)
    /\ [][\A p \in DOMAIN passes : Fails(p) =>
            /\ UNCHANGED <<diagnosticCollection, pendingValidationRequests,
                           timers, nextHandle>>
            /\ Len(passes') = Len(passes)]_vars
    /\ [][~ (timers' \subseteq timers) => version' = version + 1]_vars

\* the engine call of the latest pass has failed and the diagnostics an
\* earlier pass published are still visible, with nothing scheduled
C15_Witness ==
    /\ passes # <<>>
    /\ Last(passes).stage = "failed"
    /\ Last(passes).parse = "ok"
    /\ lastPublished \in 1..(Len(passes) - 1)
    /\ Visible(MONACO_URI) # <<>>
    /\ Visible(MONACO_URI) = Result(passes[lastPublished].document)
    /\ Idle /\ timers = {}

\* no validation is pending and no pass waits for the engine or for the
\* conversion
Quiescent == Idle /\ \A i \in DOMAIN passes : ~ InFlight(i)

\* an engine call of pass i failed: parseJSONDocument threw or the promise
\* of doValidation was rejected
EngineFailed(i) ==
    /\ passes[i].stage = "failed"
    /\ Last(passes[i].calls) \in {"parseJSONDocument", "doValidation"}

\* the diagnostics of the buffer as it is
Converged ==
    Visible(MONACO_URI) =
        IF Len(text) = 0 THEN <<>> ELSE Result(createDocument(version, text))

\* C16 as stated: if no timer has fired while the engine call of an earlier
\* pass was outstanding and no engine call has failed, then in every state
\* with no pending handle and no engine call outstanding the visible
\* diagnostics are the validation result of the buffer, or none when the
\* buffer is empty
C16_ConvergenceAfterEngineCall ==
    (/\ overlapped # "doValidation"
     /\ \A i \in DOMAIN passes : ~ EngineFailed(i)
     /\ Idle
     /\ \A i \in DOMAIN passes : passes[i].stage # "doValidation")
    => Converged

\* C16 as amended: if no timer has fired before every earlier pass had
\* ended, its conversion and publication included, and neither an engine
\* call nor a conversion has failed, then in every quiescent state the
\* visible diagnostics are the validation result of the buffer, or none when
\* the buffer is empty
C16_ConvergenceWithoutOverlap ==
    (/\ overlapped = "none"
     /\ \A i \in DOMAIN passes : passes[i].stage # "failed"
     /\ Quiescent)
    => Converged

\* three passes have run one after the other, and after diagnostics were
\* visible the validator has come to rest on a buffer that has none
C16_Witness ==
    /\ overlapped = "none"
    /\ Quiescent
    /\ Len(passes) = 3
    /\ \A i \in DOMAIN passes : passes[i].stage = "done"
    /\ Result(passes[2].document) # <<>>
    /\ Converged
    /\ Visible(MONACO_URI) = <<>>

\* the passes that have run on the initial content
InitialPasses ==
    {i \in DOMAIN passes : passes[i].document.version = 1}

\* C17: at startup one validation is pending for the initial content; as
\* long as the buffer is not changed no pass but the one on the initial
\* content runs, it runs once, and with every scheduled timer eventually
\* firing it does run; a content-changed event that arrives before cancels
\* the initial timer, and then no pass ever runs on the initial content
C17_InitialValidation ==
    /\ /\ passes = <<>>
       /\ \E t \in timers :
            /\ timers = {t}
            /\ t.document.version = 1
            /\ getText(t.document) = InitialValue
            /\ pendingValidationRequests = [u \in {MODEL_URI} |-> t.handle]
    /\ [](/\ Cardinality(InitialPasses) <= 1
          /\ \A i \in InitialPasses : getText(passes[i].document) = InitialValue
          /\ version = 1 => DOMAIN passes = InitialPasses
          /\ 1 \in cancelled => InitialPasses = {})
    /\ (version = 1) ~> (version # 1 \/ (InitialPasses # {} /\ Idle))
    /\ [][version = 1 /\ version' # 1 /\ passes = <<>> =>
            /\ 1 \in cancelled'
            /\ \A t \in timers' : t.document.version = version']_vars

\* with no content-changed event at all, the pass on the initial content
\* has run and nothing is pending
C17_Witness ==
    /\ version = 1
    /\ Len(passes) = 1
    /\ passes[1].document = createDocument(1, InitialValue)
    /\ Idle
    /\ cancelled = {}

(***************************************************************************)
(* Properties of the capability providers.                                 *)
(***************************************************************************)
\* the snapshot of the buffer as it was when request r was issued
IssuedSnapshot(r) == createDocument(r.issued.version, r.issued.text)

WithDocument(r) == r.kind \in {"completion", "formatting", "symbols", "hover"}

AdapterStep == requests' # requests \/ delivered' # delivered

C9_AlwaysRejectedPromise ==
    delivered.failure # "none" => delivered.stage = "rejected"

\* C9 as amended: a failed engine call ends the provider without a result
\* and without a second attempt: as a rejected promise when the promise of
\* the engine call was rejected or the provider is the async
\* provideCompletionItems, and as an exception thrown by the provider when
\* the engine call threw in one of the other providers
C9_FailurePropagation ==
    /\ \A r \in requests : r.failure = "none"
    /\ \A c \in Range(delivered.calls) : Count(delivered.calls, c) = 1
    /\ delivered.failure # "none" =>
        /\ delivered.failure = Last(delivered.calls)
        /\ delivered.value = Undefined
        /\ delivered.stage =
                IF delivered.kind = "completion" \/ delivered.how = "rejected"
                THEN "rejected" ELSE "thrown"

\* the promise of an engine call was rejected and so is the provider's
C9_Witness ==
    /\ delivered.failure \in {"doComplete", "doResolve", "doHover"}
    /\ delivered.how = "rejected"
    /\ delivered.stage = "rejected"

====
